---- MODULE Spec2Model ----
(***************************************************************************)
(* The file-ingestion pipeline of the Repairium RAG API (src/main.py):     *)
(* POST /libraries/files -> add_file_to_library -> download_file_from_uri. *)
(*                                                                         *)
(* Requests are coroutines on one asyncio event loop.  A coroutine runs    *)
(* without interruption between two awaits, so every action below is the   *)
(* code that runs from one suspension point to the next:                   *)
(*   Begin      entry of the handler up to `await client.get(...)`         *)
(*   GetDone    resumption after the GET up to the `async with` exit       *)
(*   Leave      resumption after the client's __aexit__ to the end of the  *)
(*              handler (parse, response, except clauses, finally)         *)
(*   Cancel     a CancelledError delivered at either suspension point      *)
(*   Respond    the ended call's frame is dropped and its slot is free     *)
(* Before any request is served the lifespan runs (Startup, Serve).        *)
(* POST /libraries/embed (create_embeddings) has no await: Embed is the     *)
(* whole handler, EmbedRespond drops its frame.                            *)
(* The library store (llmware Library), the HTTP client (httpx), the       *)
(* parser (Library.add_file) and the filesystem are the environment: their *)
(* answers are inputs drawn with \E.  The documents a library holds belong *)
(* to the parser and are not part of the state.                            *)
(***************************************************************************)
EXTENDS Integers, Sequences, FiniteSets, TLC

\* ---------------------------------------------------------------- bounds
\* Requests received in one behaviour.
MaxRequests == 2

\* The coroutines that may be in flight at the same time (a slot is free
\* again once its call has ended).
Calls == {1, 2}
Filenames == {"a.pdf", "b.pdf"}
LibNames == {"lib1", "lib2"}
Uris == {"u1", "u2"}

\* ------------------------------------------------------- program constants
HTTP_200_OK == 200
HTTP_400_BAD_REQUEST == 400
HTTP_500_INTERNAL_SERVER_ERROR == 500
\* No HTTP response was produced (the call is running, or was cancelled).
NoStatus == 0

\* ------------------------------------------------------------ exceptions
NoExc == "none"
\* Subclasses of httpx.HTTPError that client.get / raise_for_status raise.
HTTPErrors == {"HTTPStatusError", "ConnectError", "TimeoutException"}
\* asyncio.CancelledError derives from BaseException, not from Exception.
Cancelled == "CancelledError"

IsHTTPError(e) == e \in HTTPErrors
IsException(e) == e # NoExc /\ e # Cancelled

\* ------------------------------------------------------------ filesystem
\* f"llmware_{filename}" joined to tempfile.gettempdir().
TempDir == "/tmp"

local_path(filename) == <<TempDir, "llmware_", filename>>

\* temp_file_path = None
None == <<>>
Paths == {local_path(f) : f \in Filenames}

\* The bytes of a file: the URI they came from and whether all were written.
NoData == [uri |-> "", complete |-> FALSE]
Body(uri) == [uri |-> uri, complete |-> TRUE]
Partial(uri) == [uri |-> uri, complete |-> FALSE]

\* writer: the call in flight whose open(local_path, 'wb') last created the
\* file; 0 once that call has ended.
NoFile == [exists |-> FALSE, data |-> NoData, writer |-> 0]

\* ---------------------------------------------------------- parser values
\* What library.add_file may return: kind is the Python type, n its content
\* (n = 0: empty / zero, hence falsy).
PyNone == [kind |-> "NoneType", n |-> 0]
EmptyMap == [kind |-> "dict", n |-> 0]
Map1 == [kind |-> "dict", n |-> 1]
EmptyList == [kind |-> "list", n |-> 0]
List1 == [kind |-> "list", n |-> 1]
ParserReturns == {PyNone, EmptyMap, Map1, EmptyList, List1}
\* Exceptions the parser may raise: its own, or one of the httpx family.
ParserRaises == {"ParserError", "ConnectError"}

Falsy(v) == v.n = 0
IsMapping(v) == v.kind = "dict"

\* ------------------------------------------------------------------ state
VARIABLES
    pc,              \* where each call is: idle, get, aexit, done, cancelled
    request,         \* AddFileRequest of each call
    temp_file_path,  \* the handler's local of that name
    pending,         \* exception travelling out of download_file_from_uri
    outcome,         \* HTTP status the call ended with (NoStatus: none)
    response,        \* AddFileResponse of a successful call
    h,               \* what each call did and was answered (history)
    libs,            \* library store: number of libraries of each name
    fs,              \* the temporary directory
    nreq,            \* requests received so far
    app,             \* lifespan: startup, ready, serving, aborted
    tokenizer,       \* gpt2/tokenizer.json exists in the model repo
    boot,            \* what ensure_gpt2_tokenizer_exists did (history)
    emb              \* the create_embeddings call that just ended, if any

vars == <<pc, request, temp_file_path, pending, outcome, response, h,
          libs, fs, nreq, app, tokenizer, boot, emb>>

lifecycle == <<app, tokenizer, boot>>

Requests == [filename : Filenames, library_name : LibNames, blob_uri : Uris]
NoRequest == [filename |-> "", library_name |-> "", blob_uri |-> ""]
NoResponse == [filename |-> "", library_name |-> "", parsing_output |-> PyNone]

GetResults == {"2xx", "404", "ConnectError", "TimeoutException"}
WriteResults == {"ok", "open_fails", "write_fails"}

H0 == [up |-> TRUE, found |-> FALSE, creates |-> 0, get |-> "none",
       fetch_exc |-> NoExc, staged |-> FALSE, parsed |-> "no", parse_in |-> NoFile,
       parse_ret |-> PyNone, exc |-> NoExc, remove_failed |-> FALSE,
       cancelled_at |-> "none"]

\* Answers of pull_single_model_from_llmware_public_repo: the assets are
\* downloaded, or the call raises.
DownloadResults == {"ok", "raises"}

Boot0 == [found |-> FALSE, downloads |-> 0, raised |-> FALSE]

\* os.environ.get("OPENAI_API_KEY"): unset (None), empty, or a key.
ApiKeys == {"unset", "", "sk"}
\* Answers of install_vector_embeddings (llmware): it returns or raises.
InstallResults == {"ok", "raises"}

EmbNone == [status |-> NoStatus, loaded |-> FALSE, key_missing |-> FALSE,
            installs |-> 0, exc |-> NoExc]

Init ==
    /\ emb = EmbNone
    /\ app = "startup"
    /\ tokenizer \in BOOLEAN
    /\ boot = Boot0
    /\ pc = [c \in Calls |-> "idle"]
    /\ request = [c \in Calls |-> NoRequest]
    /\ temp_file_path = [c \in Calls |-> None]
    /\ pending = [c \in Calls |-> NoExc]
    /\ outcome = [c \in Calls |-> NoStatus]
    /\ response = [c \in Calls |-> NoResponse]
    /\ h = [c \in Calls |-> H0]
    /\ libs = [n \in LibNames |-> 0]
    /\ fs = [p \in Paths |-> NoFile]
    /\ nreq = 0

\* ------------------------------------------------------------- lifespan
\* The variant that logs the exception of the download and goes on.
ensure_gpt2_tokenizer_exists_Swallows(present, dl) ==
    IF present
    THEN [tokenizer |-> TRUE, found |-> TRUE, downloads |-> 0, raised |-> FALSE]
    ELSE [tokenizer |-> dl = "ok", found |-> FALSE, downloads |-> 1,
          raised |-> FALSE]

\* Lines 78-98: if tokenizer.json is absent, download the gpt2 assets; an
\* exception of the download is logged and raised again.  Result: whether
\* the file exists afterwards, whether it was found, the downloads
\* triggered, and whether the function raised.
ensure_gpt2_tokenizer_exists(present, dl) ==
    IF present
    THEN [tokenizer |-> TRUE, found |-> TRUE, downloads |-> 0, raised |-> FALSE]
    ELSE [tokenizer |-> dl = "ok", found |-> FALSE, downloads |-> 1,
          raised |-> dl # "ok"]

\* Lines 121-135: the lifespan configures llmware and ensures the tokenizer;
\* an exception leaves the lifespan before its yield and the server does not
\* start.
Startup ==
    \E dl \in DownloadResults :
        LET r == ensure_gpt2_tokenizer_exists(tokenizer, dl)
        IN  /\ app = "startup"
            /\ tokenizer' = r.tokenizer
            /\ boot' = [found |-> r.found, downloads |-> r.downloads,
                        raised |-> r.raised]
            /\ app' = IF r.raised THEN "aborted" ELSE "ready"
            /\ UNCHANGED <<pc, request, temp_file_path, pending, outcome,
                           response, h, libs, fs, nreq, emb>>

\* Lines 137-139: the lifespan yields and the application serves requests;
\* the locals of the startup are gone.
Serve ==
    /\ app = "ready"
    /\ app' = "serving"
    /\ boot' = Boot0
    /\ UNCHANGED <<pc, request, temp_file_path, pending, outcome,
                   response, h, libs, fs, nreq, tokenizer, emb>>

\* ---------------------------------------------------- the handler's pieces
\* Lines 261-267: load the library; on ANY exception of the load, create it.
\* The store answers a load of an absent name, and every call while it is
\* unavailable (up = FALSE), with an exception; a create adds a library.
\* Result: the exception leaving the block, whether the load found the
\* library, the creates issued, and the store afterwards.
\* The load is skipped and the library is always created.
ResolveLibrary_AlwaysCreate(name, up, store) ==
    IF up
    THEN [raised |-> NoExc, found |-> FALSE, creates |-> 1,
          libs |-> [store EXCEPT ![name] = @ + 1]]
    ELSE [raised |-> "LibraryError", found |-> FALSE, creates |-> 1,
          libs |-> store]

\* The exception of the load is not caught: an absent library is an error.
ResolveLibrary_NoCreate(name, up, store) ==
    IF up /\ store[name] > 0
    THEN [raised |-> NoExc, found |-> TRUE, creates |-> 0, libs |-> store]
    ELSE [raised |-> "LibraryError", found |-> FALSE, creates |-> 0,
          libs |-> store]

ResolveLibrary(name, up, store) ==
    IF up /\ store[name] > 0
    THEN [raised |-> NoExc, found |-> TRUE, creates |-> 0, libs |-> store]
    ELSE IF up
         THEN [raised |-> NoExc, found |-> FALSE, creates |-> 1,
               libs |-> [store EXCEPT ![name] = @ + 1]]
         ELSE [raised |-> "LibraryError", found |-> FALSE, creates |-> 1,
               libs |-> store]

\* Lines 322-323: the exception of client.get / raise_for_status.
GetException(res) ==
    CASE res = "2xx" -> NoExc
      [] res = "404" -> "HTTPStatusError"
      [] OTHER -> res

\* Lines 326-327: open(local_path, 'wb') and f.write(response.content).
WriteFile(files, path, call, uri, io) ==
    CASE io = "open_fails" -> files
      [] io = "write_fails" ->
           [files EXCEPT ![path] =
               [exists |-> TRUE, data |-> Partial(uri), writer |-> call]]
      [] OTHER ->
           [files EXCEPT ![path] =
               [exists |-> TRUE, data |-> Body(uri), writer |-> call]]

WriteException(io) == IF io = "ok" THEN NoExc ELSE "OSError"

\* The parser's value is dropped: the response always carries {}.
ParsingOutput_AlwaysEmpty(ret) == EmptyMap

\* Line 285: parsing_output or {}.
ParsingOutput(ret) == IF Falsy(ret) THEN EmptyMap ELSE ret

\* Lines 282-287: AddFileResponse(...); pydantic rejects a parsing_output
\* that is not a dict.
ResponseException(out) == IF IsMapping(out) THEN NoExc ELSE "ValidationError"

MakeResponse(req, out) ==
    [filename |-> req.filename, library_name |-> req.library_name,
     parsing_output |-> out]

\* The `except httpx.HTTPError` clause is missing.
HandlerStatus_NoHTTPErrorClause(exc) ==
    IF exc = NoExc THEN HTTP_200_OK
    ELSE IF IsException(exc) THEN HTTP_500_INTERNAL_SERVER_ERROR
    ELSE NoStatus

\* Lines 282-300: the status the try block ends with: the return, or the
\* except clause that matches the exception; a BaseException matches none.
HandlerStatus(exc) ==
    IF exc = NoExc THEN HTTP_200_OK
    ELSE IF IsHTTPError(exc) THEN HTTP_400_BAD_REQUEST
    ELSE IF IsException(exc) THEN HTTP_500_INTERNAL_SERVER_ERROR
    ELSE NoStatus

\* Lines 303-305: the guard of the removal, and the removal.
RemoveAttempted(tfp, files) == tfp # None /\ files[tfp].exists

Cleanup(tfp, files, removeOk) ==
    IF RemoveAttempted(tfp, files) /\ removeOk
    THEN [files EXCEPT ![tfp] = NoFile]
    ELSE files

\* The exception of os.remove leaves the finally block and replaces the result.
FinalStatus_Escalates(tryStatus, removeRaised) ==
    IF removeRaised THEN HTTP_500_INTERNAL_SERVER_ERROR ELSE tryStatus

\* Lines 304-308: an exception of os.remove is caught and logged; the status
\* chosen by the try block stands.
FinalStatus(tryStatus, removeRaised) == tryStatus

\* The library this call created is deleted again when the call fails.
LibsOnExit_Rollback(store, name, created, exc) ==
    IF exc # NoExc /\ created > 0 /\ store[name] > 0
    THEN [store EXCEPT ![name] = @ - 1]
    ELSE store

\* Lines 269-308: once the library is resolved, nothing on the way out of
\* the handler (return, except clauses, finally) calls the store again.
LibsOnExit(store, name, created, exc) == store

\* Lines 289-308: the except clauses and the finally block, for a try block
\* that ended with `exc` (NoExc: it returned `resp`) while temp_file_path
\* was `tfp`.
Finish(c, exc, tfp, resp, removeOk, hist) ==
    LET attempted == RemoveAttempted(tfp, fs)
        failed == attempted /\ ~removeOk
    IN  /\ pc' = [pc EXCEPT ![c] = IF exc = Cancelled THEN "cancelled" ELSE "done"]
        /\ outcome' = [outcome EXCEPT ![c] = FinalStatus(HandlerStatus(exc), failed)]
        /\ response' = [response EXCEPT ![c] = IF exc = NoExc THEN resp ELSE NoResponse]
        /\ temp_file_path' = [temp_file_path EXCEPT ![c] = tfp]
        /\ pending' = [pending EXCEPT ![c] = NoExc]
        /\ fs' = Cleanup(tfp, fs, removeOk)
        /\ h' = [h EXCEPT ![c] = [hist EXCEPT !.exc = exc, !.remove_failed = failed]]

\* What library.add_file answers: a return value or an exception.
ParserOutcomes ==
    {[raised |-> NoExc, ret |-> v] : v \in ParserReturns}
        \cup {[raised |-> e, ret |-> PyNone] : e \in ParserRaises}

\* ---------------------------------------------------------------- actions
\* A call that ended gives the event loop back only after its frame is gone:
\* the state right after its last step shows how it ended, and Respond drops
\* its locals before any other coroutine runs.
Quiet ==
    /\ \A d \in Calls : pc[d] \notin {"done", "cancelled"}
    /\ emb = EmbNone

\* Lines 249-274 and 317-322: a request arrives (in a free slot); the handler
\* resolves the library and calls download_file_from_uri, which suspends at
\* `await client.get`.  A create that raises ends the call (lines 295-308).
Begin(c) ==
    \E req \in Requests, up \in BOOLEAN :
        LET r == ResolveLibrary(req.library_name, up, libs)
            hist == [H0 EXCEPT !.up = up, !.found = r.found, !.creates = r.creates]
        IN  /\ app = "serving"
            /\ UNCHANGED <<lifecycle, emb>>
            /\ Quiet
            /\ pc[c] = "idle"
            /\ nreq < MaxRequests
            /\ nreq' = nreq + 1
            /\ request' = [request EXCEPT ![c] = req]
            /\ libs' = r.libs
            /\ IF r.raised # NoExc
               THEN Finish(c, r.raised, None, NoResponse, TRUE, hist)
               ELSE /\ pc' = [pc EXCEPT ![c] = "get"]
                    /\ temp_file_path' = [temp_file_path EXCEPT ![c] = None]
                    /\ pending' = [pending EXCEPT ![c] = NoExc]
                    /\ outcome' = [outcome EXCEPT ![c] = NoStatus]
                    /\ response' = [response EXCEPT ![c] = NoResponse]
                    /\ h' = [h EXCEPT ![c] = hist]
                    /\ UNCHANGED fs

\* Lines 322-328: the GET is answered; raise_for_status; the body is written
\* to local_path; the coroutine suspends again in the client's __aexit__,
\* with the exception raised so far (if any) on its way out.
GetDone(c) ==
    \E res \in GetResults, io \in WriteResults :
        LET req == request[c]
            path == local_path(req.filename)
            getExc == GetException(res)
            exc == IF getExc # NoExc THEN getExc ELSE WriteException(io)
            opened == getExc = NoExc /\ io # "open_fails"
        IN  /\ Quiet
            /\ UNCHANGED <<lifecycle, emb>>
            /\ pc[c] = "get"
            /\ pc' = [pc EXCEPT ![c] = "aexit"]
            /\ pending' = [pending EXCEPT ![c] = exc]
            /\ fs' = IF getExc = NoExc
                     THEN WriteFile(fs, path, c, req.blob_uri, io)
                     ELSE fs
            /\ h' = [h EXCEPT ![c].get = res, ![c].fetch_exc = exc,
                                ![c].staged = opened]
            /\ UNCHANGED <<request, temp_file_path, outcome, response,
                           libs, nreq>>

\* Lines 271-308 and 329: __aexit__ is over.  A pending exception reaches
\* the handler with temp_file_path still None.  Otherwise local_path is
\* returned and assigned, library.add_file parses the file at that path,
\* the response is built, and the except clauses and the finally block run.
Leave(c) ==
    \E p \in ParserOutcomes, removeOk \in BOOLEAN :
        LET req == request[c]
            tfp == local_path(req.filename)
            file == fs[tfp]
            \* add_file of a path that no longer exists raises
            raised == IF file.exists THEN p.raised ELSE "ParserError"
            out == ParsingOutput(p.ret)
            exc == IF raised # NoExc THEN raised ELSE ResponseException(out)
            hist == [h[c] EXCEPT !.parsed = IF raised = NoExc THEN "returned" ELSE "raised",
                                 !.parse_in = file, !.parse_ret = p.ret]
            final == IF pending[c] # NoExc THEN pending[c] ELSE exc
        IN  /\ Quiet
            /\ UNCHANGED <<lifecycle, emb>>
            /\ pc[c] = "aexit"
            /\ UNCHANGED <<request, nreq>>
            /\ libs' = LibsOnExit(libs, req.library_name, h[c].creates, final)
            /\ IF pending[c] # NoExc
               THEN Finish(c, pending[c], None, NoResponse, removeOk, h[c])
               ELSE Finish(c, exc, tfp, MakeResponse(req, out), removeOk, hist)

\* The task is cancelled (client disconnect, outer timeout) while suspended:
\* CancelledError is raised at the await.  At `await client.get` it travels
\* out through __aexit__; at __aexit__ it reaches the handler, where no
\* except clause matches it and the finally block runs (lines 301-308).
Cancel(c) ==
    /\ Quiet
    /\ UNCHANGED <<lifecycle, emb>>
    /\ pc[c] \in {"get", "aexit"}
    /\ UNCHANGED <<request, nreq>>
    /\ libs' = IF pc[c] = "get"
               THEN libs
               ELSE LibsOnExit(libs, request[c].library_name, h[c].creates,
                               Cancelled)
    /\ IF pc[c] = "get"
       THEN /\ pc' = [pc EXCEPT ![c] = "aexit"]
            /\ pending' = [pending EXCEPT ![c] = Cancelled]
            /\ h' = [h EXCEPT ![c].cancelled_at = "get"]
            /\ UNCHANGED <<temp_file_path, outcome, response, fs>>
       ELSE Finish(c, Cancelled, None, NoResponse, TRUE,
                   [h[c] EXCEPT !.cancelled_at = "aexit"])

\* The HTTP layer sends the response (or drops the cancelled task); the
\* handler's locals are gone and the slot is free for the next request.
Respond(c) ==
    /\ pc[c] \in {"done", "cancelled"}
    /\ pc' = [pc EXCEPT ![c] = "idle"]
    /\ request' = [request EXCEPT ![c] = NoRequest]
    /\ temp_file_path' = [temp_file_path EXCEPT ![c] = None]
    /\ pending' = [pending EXCEPT ![c] = NoExc]
    /\ outcome' = [outcome EXCEPT ![c] = NoStatus]
    /\ response' = [response EXCEPT ![c] = NoResponse]
    /\ h' = [h EXCEPT ![c] = H0]
    /\ fs' = [p \in Paths |->
                IF fs[p].writer = c THEN [fs[p] EXCEPT !.writer = 0] ELSE fs[p]]
    /\ UNCHANGED <<libs, nreq>>
    /\ UNCHANGED <<lifecycle, emb>>

\* ------------------------------------------------------ create_embeddings
\* Line 337: Library().load_library succeeds iff the store is available and
\* holds the library.
LoadLibrary(name, up, store) == up /\ store[name] > 0

\* Line 341: `not api_key`.
KeyMissing(key) == key \in {"unset", ""}

\* Lines 337-358: the exception that leaves the try block, if any: the failed
\* load, the HTTPException(400) of the key check, or an exception of
\* install_vector_embeddings.
EmbeddingsException(loaded, key, inst) ==
    IF ~loaded THEN "LibraryError"
    ELSE IF KeyMissing(key) THEN "HTTPException"
    ELSE IF inst = "raises" THEN "EmbeddingError"
    ELSE NoExc

\* Lines 347-351 (and 107): install_new_embedding is invoked only after the
\* load and the key check.
EmbeddingsInstalls(loaded, key) == IF loaded /\ ~KeyMissing(key) THEN 1 ELSE 0

\* The `except HTTPException: raise` clause is missing.
EmbeddingsStatus_NoReraise(exc) ==
    IF exc = NoExc THEN HTTP_200_OK ELSE HTTP_500_INTERNAL_SERVER_ERROR

\* Lines 353-366: the return, the HTTPException raised again as it is (its
\* status is the 400 of line 343), or the generic handler's 500.
EmbeddingsStatus(exc) ==
    IF exc = NoExc THEN HTTP_200_OK
    ELSE IF exc = "HTTPException" THEN HTTP_400_BAD_REQUEST
    ELSE HTTP_500_INTERNAL_SERVER_ERROR

\* Lines 331-366: the whole handler of POST /libraries/embed.
Embed ==
    \E name \in LibNames, up \in BOOLEAN, key \in ApiKeys, inst \in InstallResults :
        LET loaded == LoadLibrary(name, up, libs)
            exc == EmbeddingsException(loaded, key, inst)
        IN  /\ app = "serving"
            /\ Quiet
            /\ nreq < MaxRequests
            /\ nreq' = nreq + 1
            /\ emb' = [status |-> EmbeddingsStatus(exc), loaded |-> loaded,
                       key_missing |-> KeyMissing(key),
                       installs |-> EmbeddingsInstalls(loaded, key),
                       exc |-> exc]
            /\ UNCHANGED <<pc, request, temp_file_path, pending, outcome,
                           response, h, libs, fs, lifecycle>>

\* The response is sent and the handler's locals are gone.
EmbedRespond ==
    /\ emb # EmbNone
    /\ emb' = EmbNone
    /\ UNCHANGED <<pc, request, temp_file_path, pending, outcome,
                   response, h, libs, fs, nreq, lifecycle>>

Next ==
    \/ Startup
    \/ Serve
    \/ Embed
    \/ EmbedRespond
    \/ \E c \in Calls :
          \/ Begin(c)
          \/ GetDone(c)
          \/ Leave(c)
          \/ Cancel(c)
          \/ Respond(c)

Spec == Init /\ [][Next]_vars

\* ----------------------------------------------------------------- claims
Ended(c) == pc[c] \in {"done", "cancelled"}
Returned(c) == pc[c] = "done"
\* The file at the call's local path, if this call's open() created it.
OwnFileLeft(c) ==
    LET f == fs[local_path(request[c].filename)]
    IN  f.exists /\ f.writer = c

\* C1: whichever way an ingestion call returns, the local file it staged
\* does not exist afterwards.  Stated for the calls whose os.remove, if it
\* was attempted, did not fail.
C1_StagedFileGoneOnReturn ==
    \A c \in Calls :
        (Returned(c) /\ h[c].staged /\ ~h[c].remove_failed) => ~OwnFileLeft(c)

\* C2: the file a call hands to the parser exists and holds the bytes that
\* same call fetched, whatever other calls overlap with it.
C2_ParserReadsOwnBytes ==
    \A c \in Calls :
        h[c].parsed # "no" =>
            /\ h[c].parse_in.exists
            /\ h[c].parse_in.data = Body(request[c].blob_uri)

\* C5: a call cancelled after its local file was created leaves no such
\* file behind.
C5_StagedFileGoneOnCancel ==
    \A c \in Calls :
        (pc[c] = "cancelled" /\ h[c].staged) => ~OwnFileLeft(c)

\* C3: a call whose fetch failed in transport (non-2xx status, connection or
\* DNS failure, timeout) never ends with 500, and ends with 400 when it
\* returns.
TransportFailures == {"404", "ConnectError", "TimeoutException"}

C3_FetchFailureIs400 ==
    \A c \in Calls :
        (Ended(c) /\ h[c].get \in TransportFailures) =>
            /\ outcome[c] # HTTP_500_INTERNAL_SERVER_ERROR
            /\ Returned(c) => outcome[c] = HTTP_400_BAD_REQUEST

C3_Witness ==
    \E c \in Calls :
        /\ Returned(c)
        /\ h[c].get = "404"
        /\ outcome[c] = HTTP_400_BAD_REQUEST

\* C4: once the fetch succeeded, an exception of the parser, of whatever
\* type, ends the call with 500.
C4_ParseFailureIs500 ==
    \A c \in Calls :
        (Returned(c) /\ h[c].parsed = "raised") =>
            outcome[c] = HTTP_500_INTERNAL_SERVER_ERROR

\* C6: the store never holds two libraries of one name, and a call whose
\* load found the library issues no create and gets past the resolution
\* without an error.
C6_OneLibraryPerName ==
    /\ \A n \in LibNames : libs[n] <= 1
    /\ \A c \in Calls :
          (pc[c] # "idle" /\ h[c].found) =>
              /\ h[c].creates = 0
              /\ h[c].exc # "LibraryError"
              /\ libs[request[c].library_name] = 1

C6_Witness ==
    \E c \in Calls :
        /\ Returned(c)
        /\ h[c].found
        /\ nreq = 2
        /\ outcome[c] = HTTP_200_OK
        /\ libs[request[c].library_name] = 1

\* C7: a call that finds its library absent (the store being available)
\* creates it exactly once, is not failed by the resolution, and goes on to
\* the fetch.
ReachedFetch(c) ==
    pc[c] \in {"get", "aexit"} \/ h[c].get # "none" \/ h[c].cancelled_at # "none"

C7_LoadOrCreate ==
    \A c \in Calls :
        (pc[c] # "idle" /\ h[c].up /\ ~h[c].found) =>
            /\ h[c].creates = 1
            /\ libs[request[c].library_name] = 1
            /\ h[c].exc # "LibraryError"
            /\ ReachedFetch(c)

C7_Witness ==
    \E c \in Calls :
        /\ pc[c] = "get"
        /\ ~h[c].found
        /\ h[c].creates = 1
        /\ libs[request[c].library_name] = 1

\* C8: when os.remove fails, the call ends as the try block decided: with
\* the response it built, or with the status of the exception it raised.
C8_CleanupFailureNotEscalated ==
    \A c \in Calls :
        h[c].remove_failed =>
            /\ h[c].exc = NoExc =>
                  /\ outcome[c] = HTTP_200_OK
                  /\ response[c] # NoResponse
            /\ IsHTTPError(h[c].exc) => outcome[c] = HTTP_400_BAD_REQUEST
            /\ (IsException(h[c].exc) /\ ~IsHTTPError(h[c].exc)) =>
                  outcome[c] = HTTP_500_INTERNAL_SERVER_ERROR

C8_Witness ==
    \E c \in Calls :
        /\ h[c].remove_failed
        /\ h[c].parsed = "returned"
        /\ outcome[c] = HTTP_200_OK
        /\ fs[temp_file_path[c]].exists

\* C9: the parser runs only after the call's fetch succeeded; a call whose
\* fetch failed returns without a parse attempt and without a staged file
\* of its own left behind.
C9_ParseOnlyAfterFetch ==
    \A c \in Calls :
        /\ h[c].parsed # "no" => (h[c].get = "2xx" /\ h[c].fetch_exc = NoExc)
        /\ (Returned(c) /\ IsException(h[c].fetch_exc)) =>
              /\ h[c].parsed = "no"
              /\ ~OwnFileLeft(c)

\* C10: a successful response carries the request's filename and
\* library_name and the parser's value, the empty mapping standing in for
\* it exactly when that value is falsy.
C10_PassThrough ==
    \A c \in Calls :
        outcome[c] = HTTP_200_OK =>
            /\ response[c].filename = request[c].filename
            /\ response[c].library_name = request[c].library_name
            /\ ~Falsy(h[c].parse_ret) => response[c].parsing_output = h[c].parse_ret
            /\ response[c].parsing_output = EmptyMap <=> Falsy(h[c].parse_ret)

C10_Witness ==
    \E c \in Calls :
        /\ outcome[c] = HTTP_200_OK
        /\ h[c].parse_ret = Map1
        /\ response[c].parsing_output = Map1

\* C11: requests are served only after ensure_gpt2_tokenizer_exists has
\* completed and with the tokenizer file present; a download is triggered
\* only when the file was absent; a failed download aborts the startup and
\* no request is ever received.
C11_StartupBootstrap ==
    /\ (app = "serving" \/ nreq > 0 \/ \E c \in Calls : pc[c] # "idle") =>
          (app = "serving" /\ tokenizer)
    /\ app = "ready" => tokenizer
    /\ boot.downloads > 0 => ~boot.found
    /\ boot.found => boot.downloads = 0
    /\ boot.raised => (app = "aborted" /\ nreq = 0)
    /\ (app = "aborted") <=> (boot.raised /\ ~tokenizer)

C11_Witness ==
    /\ app = "aborted"
    /\ boot.raised
    /\ boot.downloads = 1
    /\ ~tokenizer
    /\ nreq = 0

\* C12: create_embeddings ends with 400, without invoking
\* install_new_embedding, when the library loads and OPENAI_API_KEY is not
\* configured; every other exception, a failed load included, ends with 500.
C12_EmbeddingKeyCheck ==
    emb # EmbNone =>
        /\ (emb.loaded /\ emb.key_missing) =>
              /\ emb.status = HTTP_400_BAD_REQUEST
              /\ emb.installs = 0
        /\ ~emb.loaded =>
              /\ emb.status = HTTP_500_INTERNAL_SERVER_ERROR
              /\ emb.installs = 0
        /\ (emb.exc # NoExc /\ ~(emb.loaded /\ emb.key_missing)) =>
              emb.status = HTTP_500_INTERNAL_SERVER_ERROR
        /\ emb.exc = NoExc =>
              (emb.status = HTTP_200_OK /\ emb.installs = 1)

C12_Witness ==
    /\ emb.loaded
    /\ emb.key_missing
    /\ emb.status = HTTP_400_BAD_REQUEST
    /\ emb.installs = 0

\* C13: the library is resolved before the fetch and stays: a call that
\* created a library and then failed at the fetch or the parse returns its
\* 400 or 500 with the library still in the store.
C13_NoRollbackOfCreation ==
    \A c \in Calls :
        /\ ReachedFetch(c) => libs[request[c].library_name] >= 1
        /\ (/\ Returned(c)
            /\ outcome[c] \in {HTTP_400_BAD_REQUEST, HTTP_500_INTERNAL_SERVER_ERROR}
            /\ h[c].up
            /\ h[c].creates = 1) =>
              libs[request[c].library_name] = 1

C13_Witness ==
    \E c \in Calls :
        /\ Returned(c)
        /\ outcome[c] = HTTP_400_BAD_REQUEST
        /\ h[c].get = "404"
        /\ ~h[c].found
        /\ h[c].creates = 1
        /\ libs[request[c].library_name] = 1

====
